---------------------------- MODULE Spec2Model ----------------------------
(***************************************************************************)
(* A model of daily_pubmed_digest.py: the delivery state store             *)
(* (load_sent_state / save_sent_pmids / prune_sent_state), the             *)
(* summarisation post-processing (_force_json, _format_bullets,            *)
(* summarize_title_and_bullets, translate_title_only), the publication     *)
(* date of a record (_fmt_date, _extract_pubdate_display), the recipient   *)
(* list (_parse_recipients_env) and the sequencing of main().              *)
(*                                                                         *)
(* Text is a sequence of characters; a character is a short token:         *)
(*   "md" U+30FB katakana middle dot (the canonical bullet marker)         *)
(*   "hy" '-'   "bu" U+2022   "as" '*'   "sp" ' '   "is" U+3000            *)
(*   "lb" '['   "rb" ']'   "lp" '('   "rp" ')'   "tb" TAB                  *)
(*   "ku" U+3002   "fs" U+FF0E   "pe" '.'   "el" U+2026   "a" a letter     *)
(*   "ph" stands for one character of a fixed placeholder text             *)
(* Time is counted in hours.  PMIDs are numbers of equal digit count, so   *)
(* that the string order sorted() uses is the numeric order.               *)
(***************************************************************************)
EXTENDS Integers, Sequences, FiniteSets, TLC

VARIABLES
    pc,         \* position of main() in the current run
    outcome,    \* "running", "ok", or the exception that ended the run
    env,        \* the process environment (read at import time)
    file,       \* content of sent_pmids.json (STATE_PATH)
    clock,      \* datetime.now(), hours
    run,        \* number of the current run
    pmids,      \* main: result of pubmed_esearch
    state,      \* main: the loaded / pruned state map
    new_pmids,  \* main: discovered identifiers not in the state
    records,    \* main: parse_records(xml)
    items,      \* main: the digest's articles
    calls,      \* requests issued and state-file accesses of this run, in order
    prev,       \* what the previous run left: its discovery list and file
    arg,        \* input of the pure-function specifications
    ret         \* their result

vars == <<pc, outcome, env, file, clock, run, pmids, state, new_pmids,
          records, items, calls, prev, arg, ret>>

-----------------------------------------------------------------------------
(* Bounds of the model *)

\* PRUNE_DAYS ranges over 1..MaxPruneDays
MaxPruneDays == 2
\* number of runs of main() in one behaviour
MaxRuns == 2
\* clock (hours) at the first run
StartClock == 72
\* longest reply "bullets" array
MaxBulletList == 5

(* Program constants *)

\* timedelta(days=days): hours in a day
HoursPerDay == 24
\* the +09:00 zone the timestamps are documented to be saved with
JstOffset == 9
\* _format_bullets(lines, target=4)
Target == 4
\* _format_bullets: longest bullet left untouched
MaxBulletLen == 150
\* _format_bullets: x[:147] + ellipsis
CutLen == 147

-----------------------------------------------------------------------------
(* Text helpers *)

\* n copies of character c
Rep(c, n) == [i \in 1..n |-> c]

\* characters str.strip() removes (Unicode white space)
WhiteSpace == {"sp", "is", "tb"}

\* index of the first character of s not in cs (Len(s)+1 if none)
FirstNotIn(s, cs) ==
    IF \A i \in 1..Len(s) : s[i] \in cs THEN Len(s) + 1
    ELSE CHOOSE i \in 1..Len(s) : s[i] \notin cs /\ \A j \in 1..(i-1) : s[j] \in cs

\* index of the last character of s not in cs (0 if none)
LastNotIn(s, cs) ==
    IF \A i \in 1..Len(s) : s[i] \in cs THEN 0
    ELSE CHOOSE i \in 1..Len(s) : s[i] \notin cs /\ \A j \in (i+1)..Len(s) : s[j] \in cs

\* str.lstrip(chars)
LStrip(s, cs) == SubSeq(s, FirstNotIn(s, cs), Len(s))

\* str.strip()
Strip(s) == SubSeq(s, FirstNotIn(s, WhiteSpace), LastNotIn(s, WhiteSpace))


-----------------------------------------------------------------------------
(* Delivery state store *)

\* most entries of a state file the pipeline starts from
MaxFileEntries == 1

\* the identifiers of the model
PMIDS == {101, 102}

\* The "added_at" value of an entry:
\*   k = "null"  : null, "" or no "added_at" key (the value `not ts` catches)
\*   k = "bad"   : a value datetime.fromisoformat rejects
\*   k = "naive" : an ISO-8601 time without zone, wall clock v
\*   k = "aware" : an ISO-8601 time with zone, wall clock v, UTC offset off
NullTs == [k |-> "null", v |-> 0, off |-> 0]
BadTs == [k |-> "bad", v |-> 0, off |-> 0]
NaiveTs(v) == [k |-> "naive", v |-> v, off |-> 0]
AwareTs(v, off) == [k |-> "aware", v |-> v, off |-> off]

\* The value stored under an identifier:
\*   t = "null" : a falsy JSON value (null, 0, "", [])
\*   t = "str"  : a truthy JSON value that is no object (a string, a number)
\*   t = "obj"  : an object; ts is its "added_at"
MetaNull == [t |-> "null", ts |-> NullTs]
MetaStr == [t |-> "str", ts |-> NullTs]
MetaObj(ts) == [t |-> "obj", ts |-> ts]

EmptyMap == << >>

\* all maps from at most n identifiers to values in metas
MapsOver(metas, n) ==
    UNION {[D -> metas] : D \in {E \in SUBSET PMIDS : Cardinality(E) <= n}}

\* Content of sent_pmids.json:
\*   "absent"     : no such file
\*   "unreadable" : open() or json.load() raises (not JSON, not readable)
\*   "scalar"     : valid JSON that is neither an array nor an object
\*   "list"       : the legacy array, ids
\*   "dict"       : an object, map
FileAbsent == [kind |-> "absent", ids |-> << >>, map |-> EmptyMap]
FileUnreadable == [kind |-> "unreadable", ids |-> << >>, map |-> EmptyMap]
FileScalar == [kind |-> "scalar", ids |-> << >>, map |-> EmptyMap]
FileList(ids) == [kind |-> "list", ids |-> ids, map |-> EmptyMap]
FileDict(m) == [kind |-> "dict", ids |-> << >>, map |-> m]

Range(s) == {s[i] : i \in DOMAIN s}

\* load_sent_state()
LoadSentState(f) ==
    CASE f.kind = "absent" -> EmptyMap
      [] f.kind = "list" -> [p \in Range(f.ids) |-> MetaObj(NullTs)]
      [] f.kind = "dict" -> f.map
      [] OTHER -> EmptyMap

\* sorted(list(S)) for a set of identifiers
RECURSIVE SortedSeq(_)
SortedSeq(S) ==
    IF S = {} THEN << >>
    ELSE LET m == CHOOSE x \in S : \A y \in S : x <= y
         IN <<m>> \o SortedSeq(S \ {m})

\* save_sent_pmids(pmids): iterating a dict yields its keys
SaveSentPmids(m) == FileList(SortedSeq(DOMAIN m))

\* datetime.fromisoformat(ts): ok is FALSE when it raises
FromIsoFormat(ts) ==
    [ok |-> ts.k \in {"naive", "aware"}, v |-> ts.v, off |-> ts.off,
     tz |-> ts.k = "aware"]

\* dt.replace(tzinfo=utc) for a naive time, then dt.astimezone(utc)
ToUtc(dt) == IF dt.tz THEN dt.v - dt.off ELSE dt.v

\* a comparison that drops an entry dated exactly at the cutoff
AfterCutoff(dt_utc, cutoff_utc) == dt_utc > cutoff_utc

\* the comparison of prune_sent_state that keeps an entry
NotBeforeCutoff(dt_utc, cutoff_utc) == dt_utc >= cutoff_utc

\* prune_sent_state, one entry: TRUE when it is kept
PruneKeeps(meta, days, now) ==
    LET ts == IF meta.t = "obj" THEN meta.ts ELSE NullTs
        dt == FromIsoFormat(ts)
        cutoff_utc == now - HoursPerDay * days
    IN  \/ ts.k = "null"
        \/ ~dt.ok
        \/ NotBeforeCutoff(ToUtc(dt), cutoff_utc)

\* (meta or {}).get("added_at") raises AttributeError for a truthy value
\* that is no object
PruneRaises(st) == \E p \in DOMAIN st : st[p].t = "str"

\* prune_sent_state(state, days) at time now
PruneSentState(st, days, now) ==
    IF PruneRaises(st)
    THEN [raised |-> TRUE, kept |-> EmptyMap, removed |-> 0]
    ELSE LET keep == {p \in DOMAIN st : PruneKeeps(st[p], days, now)}
         IN  [raised |-> FALSE,
              kept |-> [p \in keep |-> st[p]],
              removed |-> Cardinality(DOMAIN st \ keep)]

-----------------------------------------------------------------------------
(* Summarisation client *)

\* the marker _format_bullets prepends
Marker == "md"
\* x.lstrip(<marker characters>) in _format_bullets
BulletMarkers == {"md", "hy", "bu", "as", "sp", "is"}
\* title_ja.lstrip(<marker characters>)
TitleMarkers == {"md", "hy", "bu", "as", "lb", "rb", "lp", "rp", "sp", "is"}
\* title_ja.endswith((...)): the sentence terminators
Terminators == {"ku", "fs", "pe"}

\* the bullet appended when fewer than target bullets came back
InsufficientBullet == <<Marker>> \o Rep("pi", 12)
\* the title used when no translation was obtained
FailedTitle == Rep("pf", 9)
\* the summary of a record without abstract
NoAbstractSummary == <<Marker>> \o Rep("pn", 29)

\* A JSON value of the reply:
\*   t = "missing" (no such key), "null", "num", "bool", "str", "list", "obj"
\*   n : the number (a bool as 0 / 1)
\*   l : the elements of a list, the keys of an object, <<s>> for a string s;
\*       elements are strings
JMissing == [t |-> "missing", n |-> 0, l |-> << >>]
JNull == [t |-> "null", n |-> 0, l |-> << >>]
JNum(n) == [t |-> "num", n |-> n, l |-> << >>]
JBool(b) == [t |-> "bool", n |-> IF b THEN 1 ELSE 0, l |-> << >>]
JStr(s) == [t |-> "str", n |-> 0, l |-> <<s>>]
JList(l) == [t |-> "list", n |-> 0, l |-> l]
JObj(keys) == [t |-> "obj", n |-> 0, l |-> keys]

\* Python truth value of data.get(key)
Truthy(v) ==
    CASE v.t \in {"missing", "null"} -> FALSE
      [] v.t \in {"num", "bool"} -> v.n # 0
      [] v.t = "str" -> v.l[1] # << >>
      [] OTHER -> v.l # << >>

\* A reply of the generative model:
\*   kind = "raise"  : generate_content raises
\*        = "empty"  : no text
\*        = "prose"  : text holding no brace-delimited span that parses
\*        = "nonobj" : JSON that is no object (an array of scalars, a scalar)
\*        = "obj"    : a JSON object, possibly inside prose; title, bullets
\*                     are its "title_ja" and "bullets"
Reply(kind, title, bullets) == [kind |-> kind, title |-> title, bullets |-> bullets]
EmptyData == [title |-> JMissing, bullets |-> JMissing]

\* _force_json(text), and the except branch around the request
ForceJson(reply) ==
    IF reply.kind = "obj"
    THEN [title |-> reply.title, bullets |-> reply.bullets]
    ELSE EmptyData

\* what `for x in (lines or [])` iterates over
Iterate(v) ==
    IF ~Truthy(v) THEN << >>
    ELSE IF v.t = "str" THEN [i \in 1..Len(v.l[1]) |-> <<v.l[1][i]>>]
    ELSE v.l

\* iterating a truthy number or bool raises TypeError
IterRaises(v) == Truthy(v) /\ v.t \in {"num", "bool"}

NonBlank(x) == Strip(x) # << >>

\* the re-marking of one bullet
Remark(x) == Strip(<<Marker>> \o LStrip(x, BulletMarkers))

\* the padding of _format_bullets
Pad(xs, target) ==
    xs \o [i \in 1..(target - Len(xs)) |-> InsufficientBullet]

\* the truncation of one bullet
Truncate(x) ==
    IF Len(x) <= MaxBulletLen THEN x ELSE SubSeq(x, 1, CutLen) \o <<"el">>

\* xs[:target]
Take(xs, target) == SubSeq(xs, 1, IF Len(xs) < target THEN Len(xs) ELSE target)

\* _format_bullets(lines, target) for lines that can be iterated
FormatBullets(v, target) ==
    LET it == Iterate(v)
        xs1 == SelectSeq([i \in 1..Len(it) |-> Strip(it[i])], NonBlank)
        xs2 == [i \in 1..Len(xs1) |-> Remark(xs1[i])]
        xs3 == Pad(Take(xs2, target), target)
    IN  [i \in 1..Len(xs3) |-> Truncate(xs3[i])]

\* str(data.get("title_ja") or ""): a number prints as its digits
TitleText(v) ==
    IF ~Truthy(v) THEN << >>
    ELSE IF v.t = "str" THEN v.l[1]
    ELSE Rep("a", 1)

\* strip the leading markers and one trailing sentence terminator
TidyTitle(s) ==
    LET t == LStrip(s, TitleMarkers)
    IN  IF Len(t) > 0 /\ t[Len(t)] \in Terminators
        THEN SubSeq(t, 1, Len(t) - 1) ELSE t

\* translate_title_only(title) with the model answering reply:
\* text is the title returned, requests the requests it issued
TranslateTitleOnly(title, reply) ==
    IF Strip(title) = << >> THEN [text |-> << >>, requests |-> 0]
    ELSE LET data == ForceJson(reply)
             \* (data.get("title_ja") or "").strip() raises for a truthy
             \* non-string, inside the try
             raw == IF Truthy(data.title) /\ data.title.t = "str"
                    THEN Strip(data.title.l[1]) ELSE << >>
         IN  [text |-> TidyTitle(raw), requests |-> 1]

\* the fallback of summarize_title_and_bullets for an empty title
TitleOrFallback(title_ja, tto) ==
    IF title_ja # << >> THEN title_ja
    ELSE IF tto # << >> THEN tto ELSE FailedTitle

\* summarize_title_and_bullets(title, abstract) with the model answering
\* reply to the full request and tto_reply to a title-only request
SummarizeTitleAndBullets(title, abstract, reply, tto_reply) ==
    LET data == ForceJson(reply)
        title_ja == TidyTitle(Strip(TitleText(data.title)))
        tto == TranslateTitleOnly(title, tto_reply)
    IN  IF IterRaises(data.bullets)
        THEN [exc |-> "TypeError", title_ja |-> << >>, bullets |-> << >>,
              full_requests |-> 1, title_requests |-> 0]
        ELSE [exc |-> "none",
              title_ja |-> TitleOrFallback(title_ja, tto.text),
              bullets |-> FormatBullets(data.bullets, Target),
              full_requests |-> 1,
              title_requests |-> IF title_ja = << >> THEN tto.requests ELSE 0]

-----------------------------------------------------------------------------------------------------------------------------------------------------
(* Publication date of a record *)

\* Text of a date field: a digit is one character ("0".."9"), a run of
\* letters is one token ("Sep", "September", "Fall"), "sp" is a blank.  A
\* field that is missing (findtext gives None) reads as the empty text,
\* which is what (y or "") makes of it.
Digit(i) == <<"0", "1", "2", "3", "4", "5", "6", "7", "8", "9">>[i + 1]
Digits == {Digit(i) : i \in 0..9}
NumText(i) == IF i < 10 THEN <<Digit(i)>> ELSE <<"1", Digit(i - 10)>>

MonthNames ==
    <<"Jan", "Feb", "Mar", "Apr", "May", "Jun",
      "Jul", "Aug", "Sep", "Oct", "Nov", "Dec">>
FullNames ==
    <<"January", "February", "March", "April", "May", "June",
      "July", "August", "September", "October", "November", "December">>

\* the keys of _MONTH_ABBR that give month i
MonthKeys(i) ==
    {NumText(i), <<MonthNames[i]>>, <<FullNames[i]>>}
    \cup (IF i < 10 THEN {<<"0">> \o NumText(i)} ELSE {})

\* _MONTH_ABBR.get(m, m)
MonthAbbr(m) ==
    IF \E i \in 1..12 : m \in MonthKeys(i)
    THEN <<MonthNames[CHOOSE i \in 1..12 : m \in MonthKeys(i)]>>
    ELSE m

\* _fmt_date(y, m, d)
FmtDate(y0, m0, d0) ==
    LET y == Strip(y0)
        m == MonthAbbr(Strip(m0))
        d1 == Strip(d0)
        d == IF Len(d1) = 1 /\ d1[1] \in Digits THEN <<"0">> \o d1 ELSE d1
    IN  IF y # << >> /\ m # << >> /\ d # << >> THEN y \o <<"sp">> \o m \o <<"sp">> \o d
        ELSE IF y # << >> /\ m # << >> THEN y \o <<"sp">> \o m
        ELSE y

\* A dated element (ArticleDate, PubMedPubDate): kind is its DateType or
\* PubStatus attribute, y, m, d the texts of its Year, Month, Day.
Dated(kind, y, m, d) == [kind |-> kind, y |-> y, m |-> m, d |-> d]

\* A PubmedArticle as far as the date goes: the ArticleDate elements and the
\* PubMedPubDate elements in document order, and the issue's PubDate.
Art(ads, y, m, d, medline, hist) ==
    [article_dates |-> ads, y |-> y, m |-> m, d |-> d,
     medline |-> medline, history |-> hist]

\* str.lower() of a DateType attribute
LowerType(t) ==
    CASE t = "Electronic" -> "electronic" [] t = "Print" -> "print" [] OTHER -> t

\* the first element of s of one of the kinds (s has one)
FirstOf(s, kinds) ==
    s[CHOOSE i \in 1..Len(s) :
          LowerType(s[i].kind) \in kinds
          /\ \A j \in 1..(i - 1) : LowerType(s[j].kind) \notin kinds]

Has(s, kinds) == \E i \in 1..Len(s) : LowerType(s[i].kind) \in kinds

FmtOf(e) == FmtDate(e.y, e.m, e.d)

\* the History status the loop of level 4 stops at
HistoryStatus(hist) ==
    IF Has(hist, {"pubmed"}) THEN "pubmed"
    ELSE IF Has(hist, {"entrez"}) THEN "entrez"
    ELSE "medline"

\* _extract_pubdate_display(art)
ExtractPubdateDisplay(art) ==
    LET ads == art.article_dates
        issue == FmtDate(art.y, art.m, art.d)
        md == Strip(art.medline)
    IN  IF Has(ads, {"electronic"}) THEN FmtOf(FirstOf(ads, {"electronic"}))
        ELSE IF ads # << >> /\ FmtOf(ads[1]) # << >> THEN FmtOf(ads[1])
        ELSE IF issue # << >> THEN issue
        ELSE IF md # << >> THEN md
        ELSE IF Has(art.history, {"pubmed", "entrez", "medline"})
             THEN FmtOf(FirstOf(art.history, {HistoryStatus(art.history)}))
        ELSE << >>

-----
(* The environment *)

\* Text of an address setting.  An address is one token, in two spellings
\* that differ in letter case only: "ax" a@x.com and "AX" A@X.COM, "bx"
\* b@x.com and "BX" B@X.COM.  "nm" is a word of a display name, "lt" '<',
\* "gt" '>', "cm" ',', "sc" ';', "nl" a line feed.
Addresses == {"ax", "AX", "bx", "BX"}
Separators == {"cm", "sc", "nl"}
Unset == << >>
OneAddr == <<"ax">>
Junk == <<"sc">>

\* An environment: JOURNALS is TRUE when the allow-list is not empty; an
\* address setting is a text (Unset when the variable is missing or empty);
\* GMAIL_APP_PASSWORD is TRUE when set.
Env(j, res, re, ga, pw, days) ==
    [JOURNALS |-> j, RECIPIENT_EMAILS |-> res, RECIPIENT_EMAIL |-> re,
     GMAIL_ADDRESS |-> ga, GMAIL_APP_PASSWORD |-> pw, PRUNE_DAYS |-> days]

\* the environments the runs are checked under: every retention window
\* with everything set, and each way of missing a setting
EnvSet ==
    {Env(TRUE, OneAddr, Unset, OneAddr, TRUE, d) : d \in 1..MaxPruneDays}
    \cup {Env(TRUE, c[1], c[2], c[3], c[4], 1) :
        c \in {<<Unset, Unset, OneAddr, TRUE>>,  \* recipients: the sender
               <<Unset, Unset, Unset, TRUE>>,    \* no address at all
               <<Junk, OneAddr, OneAddr, TRUE>>, \* first source holds no address
               <<Unset, OneAddr, OneAddr, FALSE>>}} \* no app password
    \cup {Env(FALSE, OneAddr, Unset, OneAddr, TRUE, 1)} \* no journal

\* os.getenv("RECIPIENT_EMAILS") or os.getenv("RECIPIENT_EMAIL")
\*   or os.getenv("GMAIL_ADDRESS") or ""
RawRecipients(e) ==
    IF e.RECIPIENT_EMAILS # << >> THEN e.RECIPIENT_EMAILS
    ELSE IF e.RECIPIENT_EMAIL # << >> THEN e.RECIPIENT_EMAIL
    ELSE e.GMAIL_ADDRESS

\* re.split(r'[,\n;]+', raw): the texts between runs of separators, an empty
\* text before a leading run and after a trailing one
RECURSIVE SplitRecipients(_)
SplitRecipients(raw) ==
    IF \A i \in 1..Len(raw) : raw[i] \notin Separators THEN <<raw>>
    ELSE LET i == CHOOSE k \in 1..Len(raw) :
                      raw[k] \in Separators /\ \A m \in 1..(k-1) : raw[m] \notin Separators
             rest == SubSeq(raw, i, Len(raw))
             j == FirstNotIn(rest, Separators)
         IN  <<SubSeq(raw, 1, i - 1)>> \o SplitRecipients(SubSeq(rest, j, Len(rest)))

\* email.utils.parseaddr(p)[1] for a stripped part p of one of the shapes
\*   (empty) | atom | [words] '<' [address] ['>'] ...
\* the address after the first '<' when there is a '<', the atom itself when
\* p is a single atom, and nothing for the empty part or an empty '<>'
ParseAddr(p) ==
    IF \E i \in 1..Len(p) : p[i] = "lt"
    THEN LET i == FirstNotIn(p, {"nm", "sp"})
         IN  IF i < Len(p) /\ p[i] = "lt" /\ p[i + 1] \in Addresses
             THEN <<p[i + 1]>> ELSE << >>
    ELSE IF Len(p) = 1 THEN p ELSE << >>

\* str.lower() of an address
Lower(addr) ==
    [i \in 1..Len(addr) |->
        CASE addr[i] = "AX" -> "ax" [] addr[i] = "BX" -> "bx" [] OTHER -> addr[i]]

\* a key that keeps the letter case
KeyExact(addr) == addr

\* key = addr.lower()
Key(addr) == Lower(addr)

\* the loop of _parse_recipients_env over the parts: emails and seen
RECURSIVE CollectRecipients(_, _, _)
CollectRecipients(parts, emails, seen) ==
    IF parts = << >> THEN emails
    ELSE LET addr == ParseAddr(Strip(Head(parts)))
             fresh == addr # << >> /\ Key(addr) \notin seen
         IN  CollectRecipients(Tail(parts),
                               IF fresh THEN Append(emails, addr) ELSE emails,
                               IF fresh THEN seen \cup {Key(addr)} ELSE seen)

\* _parse_recipients_env(): the addresses of the first non-empty source,
\* each a one-token text
ParseRecipientsEnv(e) ==
    CollectRecipients(SplitRecipients(RawRecipients(e)), << >>, {})

\* a guard that does not look at the settings
CanSendAlways(e, recipients) == TRUE

\* the guard of send_via_gmail
CanSend(e, recipients) ==
    e.GMAIL_ADDRESS # << >> /\ e.GMAIL_APP_PASSWORD /\ recipients # << >>

-----------------------------------------------------------------------------
(* Inputs of a run *)

\* the values an entry of the state file the pipeline starts from may hold
MainMetas ==
    {MetaStr, MetaObj(NullTs),
     MetaObj(AwareTs(StartClock + JstOffset, JstOffset)),
     MetaObj(AwareTs(StartClock + JstOffset - HoursPerDay * MaxPruneDays,
                     JstOffset))}

\* the state files the pipeline starts from
MainFiles ==
    {FileAbsent, FileUnreadable, FileScalar}
    \cup {FileList(SortedSeq(S)) : S \in {E \in SUBSET PMIDS : Cardinality(E) <= MaxFileEntries}}
    \cup {FileDict(m) : m \in MapsOver(MainMetas, MaxFileEntries)}

\* the sequences over S without repetition, ascending
IdLists == {SortedSeq(S) : S \in SUBSET PMIDS}

\* a filter that lets every discovered identifier through
FilterNothing(ids, sent_set) == ids

\* [p for p in pmids if p not in sent_set]
Filter(ids, sent_set) == SelectSeq(ids, LAMBDA p : p \notin sent_set)

\* the order-preserving subsequences of s
SubSeqsOf(s) ==
    {LET idx == SortedSeq(I) IN [k \in 1..Len(idx) |-> s[idx[k]]] :
        I \in SUBSET (1..Len(s))}

\* (title, abstract) of a record: both, or no abstract
RecordTexts == {<<<<"a">>, <<"a">>>>, <<<<"a">>, << >>>>}

\* parse_records(xml) for the answer to a request for ids: records of some
\* of the requested identifiers, each with or without title and abstract
RecordSeqs(ids) ==
    UNION {{[k \in 1..Len(sub) |->
                [pmid |-> sub[k], title |-> f[k][1], abstract |-> f[k][2]]] :
              f \in [1..Len(sub) -> RecordTexts]} :
           sub \in SubSeqsOf(ids)}

GoodBullets == JList(Rep(<<"a">>, Target))

\* replies to a full summarisation request used in the runs
MainReplies ==
    {Reply("obj", JStr(<<"a">>), GoodBullets),
     Reply("obj", JMissing, JList(<<<<"hy", "a">>>>)),
     Reply("obj", JStr(<<"a">>), JNum(1))}

\* replies to a title-only request used in the runs
MainTitleReplies ==
    {Reply("obj", JStr(<<"a", "a">>), JMissing),
     Reply("prose", JMissing, JMissing)}

\* An entry of calls: a request issued or a state-file access, in order.
\*   op = "esearch", "efetch", "full" (title+abstract summarisation request),
\*        "title" (title-only request), "smtp", "load" (a call of
\*        load_sent_state), "read" (the state file is opened and read),
\*        "write", "recipients" (a call of _parse_recipients_env)
\*   pmid: the record a summarisation request is about (0 otherwise)
Call(op, pmid) == [op |-> op, pmid |-> pmid]
NoCalls == << >>

\* if os.path.exists(STATE_FILE): with open(STATE_FILE, ...)
FileOpened(f) == f.kind # "absent"

\* what a call of load_sent_state adds to the log
LoadCalls(f) ==
    <<Call("load", 0)>> \o (IF FileOpened(f) THEN <<Call("read", 0)>> ELSE << >>)
Count(log, ops) == Cardinality({i \in 1..Len(log) : log[i].op \in ops})

NoPrev ==
    [run |-> 0, pmids |-> << >>, searched |-> FALSE, outcome |-> "none",
     file |-> FileAbsent]

NoArg == << >>

-----------------------------------------------------------------------------
(* main() *)

Init ==
    /\ pc = "check_journals"
    /\ outcome = "running"
    /\ env \in EnvSet
    /\ file \in MainFiles
    /\ clock = StartClock
    /\ run = 1
    /\ pmids = << >>
    /\ state = EmptyMap
    /\ new_pmids = << >>
    /\ records = << >>
    /\ items = << >>
    /\ calls = NoCalls
    /\ prev = NoPrev
    /\ arg = NoArg
    /\ ret = NoArg

\* the run ends with exception exc
Abort(exc) == pc' = "end" /\ outcome' = exc

\* if not JOURNALS: raise SystemExit
CheckJournals ==
    /\ pc = "check_journals"
    /\ IF env.JOURNALS
       THEN pc' = "esearch" /\ UNCHANGED outcome
       ELSE Abort("SystemExit")
    /\ UNCHANGED <<env, file, clock, run, pmids, state, new_pmids, records,
                   items, calls, prev, arg, ret>>

\* pmids = pubmed_esearch(query): the request fails, or answers a list
Esearch ==
    /\ pc = "esearch"
    /\ calls' = Append(calls, Call("esearch", 0))
    /\ \/ Abort("HTTPError") /\ UNCHANGED pmids
       \/ \E ids \in IdLists :
            /\ pmids' = ids
            /\ pc' = "load"
            /\ UNCHANGED outcome
    /\ UNCHANGED <<env, file, clock, run, state, new_pmids, records, items,
                   prev, arg, ret>>

\* state = load_sent_state()
Load ==
    /\ pc = "load"
    /\ state' = LoadSentState(file)
    /\ calls' = calls \o LoadCalls(file)
    /\ pc' = "prune"
    /\ UNCHANGED <<outcome, env, file, clock, run, pmids, new_pmids, records,
                   items, prev, arg, ret>>

\* state, pruned = prune_sent_state(state, prune_days); sent_set; new_pmids
Prune ==
    /\ pc = "prune"
    /\ LET r == PruneSentState(state, env.PRUNE_DAYS, clock)
           fresh == Filter(pmids, DOMAIN r.kept)
       IN  IF r.raised
           THEN Abort("AttributeError") /\ UNCHANGED <<state, new_pmids>>
           ELSE /\ state' = r.kept
                /\ new_pmids' = fresh
                /\ pc' = IF fresh # << >> THEN "efetch" ELSE "recipients"
                /\ UNCHANGED outcome
    /\ UNCHANGED <<env, file, clock, run, pmids, records, items, calls, prev,
                   arg, ret>>

\* xml = pubmed_efetch(new_pmids); records = parse_records(xml)
Efetch ==
    /\ pc = "efetch"
    /\ calls' = Append(calls, Call("efetch", 0))
    /\ \/ Abort("HTTPError") /\ UNCHANGED records
       \/ Abort("ParseError") /\ UNCHANGED records
       \/ \E recs \in RecordSeqs(new_pmids) :
            /\ records' = recs
            /\ pc' = IF recs # << >> THEN "summarize" ELSE "mark_sent"
            /\ UNCHANGED outcome
    /\ UNCHANGED <<env, file, clock, run, pmids, state, new_pmids, items,
                   prev, arg, ret>>

\* the requests summarize_title_and_bullets issued for record p
RequestsOf(r, p) ==
    [i \in 1..(r.full_requests + r.title_requests) |->
        IF i <= r.full_requests THEN Call("full", p) ELSE Call("title", p)]

\* one turn of the loop over records
Summarize ==
    /\ pc = "summarize"
    /\ \E reply \in MainReplies, tto_reply \in MainTitleReplies :
         LET rec == records[Len(items) + 1]
             data == SummarizeTitleAndBullets(rec.title, rec.abstract,
                                              reply, tto_reply)
             summary == IF rec.abstract # << >> THEN data.bullets
                        ELSE <<NoAbstractSummary>>
             item == [pmid |-> rec.pmid, title |-> rec.title,
                      abstract |-> rec.abstract,
                      title_ja |-> data.title_ja, summary |-> summary]
         IN  /\ calls' = calls \o RequestsOf(data, rec.pmid)
             /\ IF data.exc # "none"
                THEN Abort(data.exc) /\ UNCHANGED items
                ELSE /\ items' = Append(items, item)
                     /\ pc' = IF Len(items) + 1 < Len(records)
                              THEN "summarize" ELSE "mark_sent"
                     /\ UNCHANGED outcome
    /\ UNCHANGED <<env, file, clock, run, pmids, state, new_pmids, records,
                   prev, arg, ret>>

\* sent.update([r["pmid"] for r in records]): no name `sent` is bound, so
\* the statement raises NameError and save_sent_pmids(sent) is not reached
MarkSent ==
    /\ pc = "mark_sent"
    /\ Abort("NameError")
    /\ UNCHANGED <<env, file, clock, run, pmids, state, new_pmids, records,
                   items, calls, prev, arg, ret>>

\* recipients = _parse_recipients_env(); if not recipients: raise SystemExit
ResolveRecipients ==
    /\ pc = "recipients"
    /\ calls' = Append(calls, Call("recipients", 0))
    /\ IF ParseRecipientsEnv(env) # << >>
       THEN pc' = "send" /\ UNCHANGED outcome
       ELSE Abort("SystemExit")
    /\ UNCHANGED <<env, file, clock, run, pmids, state, new_pmids, records,
                   items, prev, arg, ret>>

\* send_via_gmail(subject, body, recipients)
SendViaGmail ==
    /\ pc = "send"
    /\ IF CanSend(env, ParseRecipientsEnv(env))
       THEN /\ calls' = Append(calls, Call("smtp", 0))
            /\ \/ pc' = "end" /\ outcome' = "ok"
               \/ Abort("SMTPException")
       ELSE Abort("RuntimeError") /\ UNCHANGED calls
    /\ UNCHANGED <<env, file, clock, run, pmids, state, new_pmids, records,
                   items, prev, arg, ret>>

\* the scheduler starts the next run, a day later
NextRun ==
    /\ pc = "end"
    /\ run < MaxRuns
    /\ prev' = [run |-> run, pmids |-> pmids,
                searched |-> Count(calls, {"load"}) > 0,
                outcome |-> outcome, file |-> file]
    /\ run' = run + 1
    /\ clock' = clock + HoursPerDay
    /\ pc' = "check_journals"
    /\ outcome' = "running"
    /\ pmids' = << >>
    /\ state' = EmptyMap
    /\ new_pmids' = << >>
    /\ records' = << >>
    /\ items' = << >>
    /\ calls' = NoCalls
    /\ UNCHANGED <<env, file, arg, ret>>

Next ==
    \/ CheckJournals
    \/ Esearch
    \/ Load
    \/ Prune
    \/ Efetch
    \/ Summarize
    \/ MarkSent
    \/ ResolveRecipients
    \/ SendViaGmail
    \/ NextRun

Spec == Init /\ [][Next]_vars

-----------------------------------------------------------------------------
(* The state store on its own: save then load, and the load of a legacy file *)

DefaultEnv == Env(TRUE, OneAddr, Unset, OneAddr, TRUE, 1)

\* the values of a state map of the documented form {added_at: time or null}
StoreMetas ==
    {MetaObj(NullTs), MetaObj(NaiveTs(StartClock)),
     MetaObj(NaiveTs(StartClock - HoursPerDay)),
     MetaObj(AwareTs(StartClock, JstOffset)), MetaObj(AwareTs(StartClock, 0))}

\* the legacy arrays: every sequence of identifiers, repetitions included
LegacyLists == UNION {[1..n -> PMIDS] : n \in 0..Cardinality(PMIDS)}

Quiet ==
    /\ outcome = "running"
    /\ run = 1
    /\ pmids = << >>
    /\ new_pmids = << >>
    /\ records = << >>
    /\ items = << >>
    /\ calls = NoCalls
    /\ prev = NoPrev
    /\ ret = NoArg

InitStore ==
    /\ Quiet
    /\ env = DefaultEnv
    /\ clock = StartClock
    /\ state = EmptyMap
    /\ \/ /\ pc = "save"
          /\ arg \in MapsOver(StoreMetas, Cardinality(PMIDS))
          /\ file = FileAbsent
       \/ /\ pc = "legacy"
          /\ arg = NoArg
          /\ file \in {FileList(l) : l \in LegacyLists}

\* save_sent_pmids(arg)
StoreSave ==
    /\ pc = "save"
    /\ file' = SaveSentPmids(arg)
    /\ calls' = Append(calls, Call("write", 0))
    /\ pc' = "saved"
    /\ UNCHANGED <<outcome, env, clock, run, pmids, state, new_pmids,
                   records, items, prev, arg, ret>>

\* load_sent_state()
StoreLoad ==
    /\ pc \in {"saved", "legacy"}
    /\ state' = LoadSentState(file)
    /\ calls' = calls \o LoadCalls(file)
    /\ pc' = IF pc = "saved" THEN "reloaded" ELSE "upgraded"
    /\ UNCHANGED <<outcome, env, file, clock, run, pmids, new_pmids,
                   records, items, prev, arg, ret>>

NextStore == StoreSave \/ StoreLoad

SpecStore == InitStore /\ [][NextStore]_vars

-----------------------------------------------------------------------------
(* prune_sent_state on its own *)

\* times around the cutoff of every retention window, in hours
PruneTimes ==
    {StartClock - HoursPerDay * d + e : d \in 1..MaxPruneDays, e \in {-1, 0, 1}}

PruneMetas ==
    {MetaNull, MetaStr, MetaObj(NullTs), MetaObj(BadTs)}
    \cup {MetaObj(NaiveTs(t)) : t \in PruneTimes}
    \cup {MetaObj(AwareTs(t + JstOffset, JstOffset)) : t \in PruneTimes}

InitPrune ==
    /\ Quiet
    /\ pc = "prune_fn"
    /\ env \in {Env(TRUE, OneAddr, Unset, OneAddr, TRUE, d) : d \in 1..MaxPruneDays}
    /\ clock = StartClock
    /\ file = FileAbsent
    /\ state \in MapsOver(PruneMetas, Cardinality(PMIDS))
    /\ arg = NoArg

\* prune_sent_state(state, PRUNE_DAYS)
PruneFn ==
    /\ pc = "prune_fn"
    /\ ret' = PruneSentState(state, env.PRUNE_DAYS, clock)
    /\ pc' = IF PruneRaises(state) THEN "prune_raised" ELSE "pruned"
    /\ UNCHANGED <<outcome, env, file, clock, run, pmids, state, new_pmids,
                   records, items, calls, prev, arg>>

NextPrune == PruneFn

SpecPrune == InitPrune /\ [][NextPrune]_vars

-----------------------------------------------------------------------------------------------------------------------------------------------------
(* _parse_recipients_env on its own *)

\* most parts of the multi-recipient setting
MaxParts == 3

\* "Dr. A <a@x.com>; a@x.com, B <b@x.com>"
ExampleRecipients ==
    <<"nm", "sp", "nm", "sp", "lt", "ax", "gt", "sc",
      "sp", "ax", "cm", "sp", "nm", "sp", "lt", "bx", "gt">>

\* the parts of a list: plain and display-name forms in both letter cases,
\* padded with blanks, an empty part and a blank one
RecipientParts ==
    {<<"nm", "sp", "nm", "sp", "lt", "ax", "gt">>, <<"sp", "ax">>,
     <<"sp", "nm", "sp", "lt", "bx", "gt">>, <<"AX">>, <<"BX", "sp">>,
     << >>, <<"sp">>}

RECURSIVE RecipientLists(_)
RecipientLists(n) ==
    IF n = 1 THEN RecipientParts
    ELSE RecipientLists(n - 1)
         \cup {l \o <<c>> \o p : l \in RecipientLists(n - 1),
                                 c \in Separators, p \in RecipientParts}

InitRecipients ==
    /\ Quiet
    /\ pc = "recipients_fn"
    /\ \E res \in RecipientLists(MaxParts) \cup {Unset},
          low \in {<<Unset, Unset>>, <<Unset, <<"AX">>>>,
                   <<<<"bx", "cm", "BX">>, <<"AX">>>>} :
          env = Env(TRUE, res, low[1], low[2], TRUE, 1)
    /\ clock = StartClock
    /\ file = FileAbsent
    /\ state = EmptyMap
    /\ arg = NoArg

\* recipients = _parse_recipients_env()
RecipientsFn ==
    /\ pc = "recipients_fn"
    /\ ret' = ParseRecipientsEnv(env)
    /\ pc' = "resolved"
    /\ UNCHANGED <<outcome, env, file, clock, run, pmids, state, new_pmids,
                   records, items, calls, prev, arg>>

NextRecipients == RecipientsFn

SpecRecipients == InitRecipients /\ [][NextRecipients]_vars

-----------------------------------------------------------------------------
(* _extract_pubdate_display on its own *)

\* most ArticleDate elements, and most PubMedPubDate elements, of a record
MaxDated == 2

Year2025 == <<"2", "0", "2", "5">>

\* the dates of an ArticleDate element: complete, without a year, and empty
ElementDates ==
    {<<Year2025, <<"0", "9">>, <<"1">>>>, <<<< >>, <<"9">>, <<"1", "5">>>>,
     <<<< >>, << >>, << >>>>}

\* the dates of a PubMedPubDate element
HistoryDates ==
    {<<Year2025, <<"1", "0">>, <<"2">>>>, <<<< >>, <<"Oct">>, << >>>>}

DatedOf(kinds, dates) == {Dated(k, t[1], t[2], t[3]) : k \in kinds, t \in dates}

RECURSIVE SeqsUpTo(_, _)
SeqsUpTo(S, n) ==
    IF n = 0 THEN {<< >>}
    ELSE SeqsUpTo(S, n - 1)
         \cup {Append(q, x) : q \in {r \in SeqsUpTo(S, n - 1) : Len(r) = n - 1}, x \in S}

\* the fields of the issue's PubDate
IssueYears == {<< >>, Year2025, <<"sp", "2", "0", "2", "4", "sp">>}
IssueMonths == {<< >>, <<"1", "2">>, <<"September">>, <<"Fall">>}
IssueDays == {<< >>, <<"7">>}
MedlineDates == {<< >>, <<"2", "0", "2", "5", "sp", "Sep", "hy", "Oct">>}

InitPubdate ==
    /\ Quiet
    /\ pc = "pubdate_fn"
    /\ env = DefaultEnv
    /\ clock = StartClock
    /\ file = FileAbsent
    /\ state = EmptyMap
    /\ \E ads \in SeqsUpTo(DatedOf({"Electronic", "Print"}, ElementDates), MaxDated),
          hist \in SeqsUpTo(DatedOf({"pubmed", "entrez", "received"}, HistoryDates), MaxDated),
          y \in IssueYears, m \in IssueMonths, d \in IssueDays,
          md \in MedlineDates :
          arg = Art(ads, y, m, d, md, hist)

\* pubdate = _extract_pubdate_display(art)
PubdateFn ==
    /\ pc = "pubdate_fn"
    /\ ret' = ExtractPubdateDisplay(arg)
    /\ pc' = "dated"
    /\ UNCHANGED <<outcome, env, file, clock, run, pmids, state, new_pmids,
                   records, items, calls, prev, arg>>

NextPubdate == PubdateFn

SpecPubdate == InitPubdate /\ [][NextPubdate]_vars

-----
(* summarize_title_and_bullets on its own *)

\* texts of one bullet of a reply: blank, marked, a bare marker, one that
\* fills the limit once marked, one that exceeds it
BulletTexts ==
    {<<"sp">>, <<"hy", "sp", "a">>, <<"md">>,
     Rep("a", MaxBulletLen - 1), Rep("a", MaxBulletLen)}

\* "bullets" values of every JSON type; arrays of up to MaxBulletList texts
ScalarBullets ==
    {JMissing, JNull, JNum(0), JNum(1), JBool(FALSE), JBool(TRUE),
     JStr(<< >>), JStr(<<"a", "sp", "hy">>), JObj(<<<<"a">>>>)}
ListBullets == {JList(l) : l \in UNION {[1..n -> BulletTexts] : n \in 0..MaxBulletList}}

\* "title_ja" values
TitleValues ==
    {JMissing, JNull, JNum(1), JStr(<< >>), JStr(<<"sp">>), JStr(<<"md", "sp">>),
     JStr(<<"ku">>), JStr(<<"lb", "pe">>), JStr(<<"hy", "tb", "pe">>),
     JStr(<<"a", "ku">>), JStr(<<"hy", "a">>)}

NoObject == {Reply(k, JMissing, JMissing) : k \in {"raise", "empty", "prose", "nonobj"}}

\* replies to the full request
SummReplies ==
    NoObject
    \cup {Reply("obj", t, b) : t \in TitleValues, b \in {JMissing, GoodBullets, JNum(1)}}
    \cup {Reply("obj", JStr(<<"a">>), b) : b \in ScalarBullets \cup ListBullets}

\* replies to the title-only request
TitleReplies == NoObject \cup {Reply("obj", t, JMissing) : t \in TitleValues}

SummArgs ==
    {[title |-> t, abstract |-> <<"a">>, reply |-> r, tto_reply |-> tr] :
        t \in {<< >>, <<"sp">>, <<"a">>},
        r \in {x \in SummReplies : x.bullets \in {JMissing, GoodBullets, JNum(1)}},
        tr \in TitleReplies}
    \cup {[title |-> <<"a">>, abstract |-> <<"a">>, reply |-> r,
           tto_reply |-> Reply("prose", JMissing, JMissing)] : r \in SummReplies}

InitSumm ==
    /\ Quiet
    /\ pc = "summarize_fn"
    /\ env = DefaultEnv
    /\ clock = StartClock
    /\ file = FileAbsent
    /\ state = EmptyMap
    /\ arg \in SummArgs

\* summarize_title_and_bullets(title, abstract)
SummFn ==
    /\ pc = "summarize_fn"
    /\ ret' = SummarizeTitleAndBullets(arg.title, arg.abstract, arg.reply,
                                       arg.tto_reply)
    /\ pc' = IF IterRaises(ForceJson(arg.reply).bullets)
             THEN "summarize_raised" ELSE "summarized"
    /\ UNCHANGED <<outcome, env, file, clock, run, pmids, state, new_pmids,
                   records, items, calls, prev, arg>>

NextSumm == SummFn

SpecSumm == InitSumm /\ [][NextSumm]_vars

-----------------------------------------------------------------------------
(* Properties *)

ItemIds == {items[i].pmid : i \in DOMAIN items}
RecordIds == {records[i].pmid : i \in DOMAIN records}
Persisted == DOMAIN LoadSentState(file)
Network == {"esearch", "efetch", "full", "title", "smtp"}
Days == env.PRUNE_DAYS

\* the settings main() and send_via_gmail require are all there
ConfigPresent ==
    /\ env.JOURNALS
    /\ ParseRecipientsEnv(env) # << >>
    /\ env.GMAIL_ADDRESS # << >>
    /\ env.GMAIL_APP_PASSWORD

\* the run is past a successful discovery
Discovered ==
    \/ pc \in {"load", "prune", "efetch", "summarize", "mark_sent",
               "recipients", "send"}
    \/ pc = "end" /\ Count(calls, {"load"}) > 0

\* the run is past load and prune
AfterPrune == pc \in {"efetch", "summarize", "mark_sent", "recipients", "send"}

\* C1: a run with the journal list, the recipients and the mail credentials
\* present, whose discovery and fetch succeed, makes exactly one mail send
\* attempt before it ends, with and without new identifiers.  (Runs ended by
\* the state file or by a reply of the model are left aside.)
C1_ExactlyOneSend ==
    (/\ pc = "end"
     /\ ConfigPresent
     /\ outcome \notin {"HTTPError", "ParseError", "AttributeError", "TypeError"})
    => Count(calls, {"smtp"}) = 1

\* the second of two consecutive runs whose discoveries returned the same list
SameDiscovery ==
    /\ run > 1
    /\ prev.searched
    /\ Discovered
    /\ pmids = prev.pmids

\* the entry has a timestamp prune can read
Parseable(meta) == meta.t = "obj" /\ meta.ts.k \in {"naive", "aware"}

\* now minus the entry's timestamp, in hours
Age(meta, now) == now - ToUtc(FromIsoFormat(meta.ts))

\* the entry is within the retention window at time now, or undated
Retained(meta, days, now) ==
    Parseable(meta) => Age(meta, now) <= HoursPerDay * days

\* C2 as stated: with the same discovery list in two consecutive runs, no
\* identifier in the state file at the end of run 1 is among the articles of
\* run 2.
C2_DedupAcrossRuns ==
    SameDiscovery => ItemIds \cap DOMAIN LoadSentState(prev.file) = {}

\* C2 amended: with the same discovery list in two consecutive runs, no
\* identifier in the state file at the end of run 1 that run 2's pruning
\* retains (undated, or not older than the retention window) is fetched or
\* among the articles of run 2.
C2_DedupOfRetained ==
    SameDiscovery =>
        \A p \in DOMAIN LoadSentState(prev.file) :
            Retained(LoadSentState(prev.file)[p], Days, clock)
            => p \notin ItemIds /\ p \notin Range(new_pmids)

\* C2 witness: run 2 after a run 1 that failed part-way, the same discovery
\* list, a retained identifier of the file discovered again, and an article
\* in the digest.
C2_Witness ==
    /\ SameDiscovery
    /\ prev.outcome = "NameError"
    /\ items # << >>
    /\ \E p \in DOMAIN LoadSentState(prev.file) :
          /\ Retained(LoadSentState(prev.file)[p], Days, clock)
          /\ p \in Range(pmids)

\* some write of the state file precedes every summarisation request
WriteBeforeSummaries ==
    \E i \in DOMAIN calls :
        /\ calls[i].op = "write"
        /\ \A j \in DOMAIN calls : calls[j].op \in {"full", "title"} => i < j

\* C3: once a non-empty batch is fetched and parsed, the identifier of every
\* parsed record is persisted in the state file, and that write comes before
\* the first summarisation request of the run.
C3_MarkedBeforeSummaries ==
    (/\ records # << >>
     /\ \/ Count(calls, {"full", "title"}) > 0
        \/ pc = "end")
    => RecordIds \subseteq Persisted /\ WriteBeforeSummaries

\* a required setting is missing
ConfigMissing == ~ConfigPresent

\* C4 as stated: with the journal list, the recipients or the mail
\* credentials missing, the configuration error that ends the run comes
\* before any discovery, fetch, summarisation or mail request and before any
\* write of the state file.
C4_ConfigErrorBeforeNetwork ==
    (/\ ConfigMissing
     /\ pc = "end"
     /\ outcome \in {"SystemExit", "RuntimeError"})
    => Count(calls, Network \cup {"write"}) = 0

\* C4 amended: a missing journal list aborts the run before any request and
\* any access to the state file; missing recipients or mail credentials end
\* the run with a fatal error and without any mail request, but only at the
\* delivery step, after the discovery request has been issued.
C4_ConfigErrorBeforeMail ==
    /\ ~env.JOURNALS =>
          /\ calls = NoCalls
          /\ pc = "end" => outcome = "SystemExit"
    /\ ConfigMissing =>
          /\ Count(calls, {"smtp"}) = 0
          /\ pc = "end" => outcome \notin {"running", "ok"}
    /\ (env.JOURNALS /\ pc = "end") => Count(calls, {"esearch"}) = 1

\* C4 witness: a run without recipients ended at the recipient check, after
\* its discovery request.
C4_Witness ==
    /\ pc = "end"
    /\ env.JOURNALS
    /\ ParseRecipientsEnv(env) = << >>
    /\ outcome = "SystemExit"
    /\ Count(calls, {"esearch"}) = 1
    /\ Count(calls, {"smtp"}) = 0

\* C5: saving a state map and loading it again gives the map that was saved,
\* timestamps included; a legacy array loads as the map with null timestamps.
C5_RoundTrip ==
    /\ pc = "reloaded" => state = arg
    /\ pc = "upgraded" => state = [p \in Range(file.ids) |-> MetaObj(NullTs)]

\* C6 as stated: after prune(state, D) every entry kept is undated or younger
\* than D days (strictly), every entry removed is dated and at least D days
\* old, and undated entries are kept.
C6_PruneStrict ==
    pc = "pruned" =>
        \A p \in DOMAIN state :
            /\ p \in DOMAIN ret.kept =>
                  ~Parseable(state[p]) \/ Age(state[p], clock) < HoursPerDay * Days
            /\ p \notin DOMAIN ret.kept =>
                  Parseable(state[p]) /\ Age(state[p], clock) >= HoursPerDay * Days
            /\ ~Parseable(state[p]) => p \in DOMAIN ret.kept

\* C6 amended: after prune(state, D) every entry kept is undated or at most D
\* days old, every entry removed is dated and more than D days old (an entry
\* exactly D days old is kept), undated entries are kept, kept entries are
\* unchanged and the count returned is the number removed.
C6_PruneInclusive ==
    pc = "pruned" =>
        /\ DOMAIN ret.kept \subseteq DOMAIN state
        /\ ret.removed = Cardinality(DOMAIN state \ DOMAIN ret.kept)
        /\ \A p \in DOMAIN state :
            /\ p \in DOMAIN ret.kept =>
                  /\ ret.kept[p] = state[p]
                  /\ ~Parseable(state[p]) \/ Age(state[p], clock) <= HoursPerDay * Days
            /\ p \notin DOMAIN ret.kept =>
                  Parseable(state[p]) /\ Age(state[p], clock) > HoursPerDay * Days
            /\ ~Parseable(state[p]) => p \in DOMAIN ret.kept

\* C6 witness: a prune that kept an entry exactly D days old, dated in the
\* +09:00 zone, and removed an older one.
C6_Witness ==
    /\ pc = "pruned"
    /\ ret.removed > 0
    /\ \E p \in DOMAIN ret.kept :
          /\ Parseable(state[p])
          /\ state[p].ts.k = "aware"
          /\ Age(state[p], clock) = HoursPerDay * Days

\* C7: for every reply summarize_title_and_bullets returns, and its bullets
\* are exactly 4, each at most 150 characters and each starting with the
\* marker.
C7_BulletContract ==
    pc \in {"summarized", "summarize_raised"} =>
        /\ ret.exc = "none"
        /\ Len(ret.bullets) = Target
        /\ \A i \in DOMAIN ret.bullets :
              /\ Len(ret.bullets[i]) <= MaxBulletLen
              /\ Len(ret.bullets[i]) > 0
              /\ ret.bullets[i][1] = Marker

\* the reply gives no usable title: no "title_ja", an empty one, or one that
\* is empty once the leading markers and a trailing terminator are stripped
NoUsableTitle(reply) ==
    TidyTitle(Strip(TitleText(ForceJson(reply).title))) = << >>

\* C8: whenever the reply gives no usable title, summarize_title_and_bullets
\* returns the non-empty result of translate_title_only, or else the failure
\* placeholder; the title returned is never empty.
C8_TitleFallback ==
    (pc \in {"summarized", "summarize_raised"} /\ NoUsableTitle(arg.reply)) =>
        LET tto == TranslateTitleOnly(arg.title, arg.tto_reply).text
        IN  /\ ret.exc = "none"
            /\ ret.title_ja = IF tto # << >> THEN tto ELSE FailedTitle
            /\ ret.title_ja # << >>

\* the state file is not a legacy array nor a map of {added_at: ...} objects
InvalidFile ==
    \/ file.kind \in {"unreadable", "scalar"}
    \/ file.kind = "dict" /\ \E p \in DOMAIN file.map : file.map[p].t # "obj"

\* C9: whatever the state file holds, load-then-prune does not abort the
\* run, and an invalid file gives the empty state.
C9_CorruptStateNotFatal ==
    /\ outcome # "AttributeError"
    /\ (AfterPrune /\ InvalidFile) => state = EmptyMap

\* C10: for a record without abstract the run issues no full summarisation
\* request, uses the "no abstract" placeholder as summary, and issues the
\* title-only translation request.
C10_NoAbstractSkipsSummary ==
    \A i \in DOMAIN items :
        items[i].abstract = << >> =>
            /\ Call("full", items[i].pmid) \notin Range(calls)
            /\ items[i].summary = <<NoAbstractSummary>>
            /\ Call("title", items[i].pmid) \in Range(calls)

\* the source _parse_recipients_env is documented to take: the first of the
\* three settings that is not empty
ChosenSource ==
    IF env.RECIPIENT_EMAILS # << >> THEN env.RECIPIENT_EMAILS
    ELSE IF env.RECIPIENT_EMAIL # << >> THEN env.RECIPIENT_EMAIL
    ELSE env.GMAIL_ADDRESS

\* positions of the addresses in a text
AddressAt(raw) == {i \in 1..Len(raw) : raw[i] \in Addresses}

\* the position at which an address is first seen in raw, in any letter case
FirstSeen(raw, a) ==
    CHOOSE i \in AddressAt(raw) :
        /\ Lower(<<raw[i]>>) = Lower(a)
        /\ \A j \in AddressAt(raw) : Lower(<<raw[j]>>) = Lower(a) => i <= j

\* C11: _parse_recipients_env returns, for the first non-empty source among
\* RECIPIENT_EMAILS, RECIPIENT_EMAIL and GMAIL_ADDRESS, split on commas,
\* semicolons and line feeds, the address of each part (also of "Name
\* <address>" parts), without duplicates up to letter case, each in the
\* spelling and at the rank of its first occurrence; and the example
\* "Dr. A <a@x.com>; a@x.com, B <b@x.com>" gives exactly [a@x.com, b@x.com].
C11_RecipientResolution ==
    pc = "resolved" =>
        LET raw == ChosenSource
        IN  /\ \A i \in 1..Len(ret) :
                  \E k \in AddressAt(raw) : ret[i] = <<raw[k]>>
            /\ \A k \in AddressAt(raw) :
                  \E i \in 1..Len(ret) : Lower(ret[i]) = Lower(<<raw[k]>>)
            /\ \A i, j \in 1..Len(ret) :
                  i < j => /\ Lower(ret[i]) # Lower(ret[j])
                           /\ FirstSeen(raw, ret[i]) < FirstSeen(raw, ret[j])
            /\ \A i \in 1..Len(ret) : ret[i] = <<raw[FirstSeen(raw, ret[i])]>>
            /\ raw = ExampleRecipients => ret = <<<<"ax">>, <<"bx">>>>

\* C11 witness: the example resolved to its two addresses while the
\* single-recipient setting and the sender address are set too.
C11_Witness ==
    /\ pc = "resolved"
    /\ env.RECIPIENT_EMAILS = ExampleRecipients
    /\ env.RECIPIENT_EMAIL # << >>
    /\ ret = <<<<"ax">>, <<"bx">>>>

\* the date each level of the documented priority yields for a record: the
\* first electronic ArticleDate, the first other ArticleDate, the issue's
\* Year/Month/Day or else its MedlineDate, the History date
PubdateLevels(art) ==
    LET ads == art.article_dates
        issue == FmtDate(art.y, art.m, art.d)
    IN  <<IF Has(ads, {"electronic"})
          THEN FmtOf(FirstOf(ads, {"electronic"})) ELSE << >>,
          IF Has(ads, {"print"}) THEN FmtOf(FirstOf(ads, {"print"})) ELSE << >>,
          IF issue # << >> THEN issue ELSE Strip(art.medline),
          IF Has(art.history, {"pubmed", "entrez", "medline"})
          THEN FmtOf(FirstOf(art.history, {HistoryStatus(art.history)}))
          ELSE << >>>>

OnlyIssue(art) == art.article_dates = << >> /\ art.history = << >>
OnlyHistory(art) ==
    /\ art.article_dates = << >>
    /\ art.y = << >> /\ art.m = << >> /\ art.d = << >> /\ art.medline = << >>

\* C12: the displayed date of a record is what the first level, in the order
\* electronic article date, other article date, issue date (structured, else
\* free text), history date, that yields a non-empty date yields - a level
\* that is present but yields nothing falls through; an issue date of month
\* and year only reads "YYYY Mon", a lone history "pubmed" date reads in the
\* same format, and a record with none of these gives the empty text.
C12_PubdateFallback ==
    pc = "dated" =>
        LET levels == PubdateLevels(arg)
        IN  /\ IF \E k \in 1..4 : levels[k] # << >>
               THEN ret = levels[CHOOSE k \in 1..4 :
                              levels[k] # << >> /\ \A j \in 1..(k - 1) : levels[j] = << >>]
               ELSE ret = << >>
            /\ (OnlyIssue(arg) /\ arg.y = Year2025 /\ arg.m = <<"September">>
                   /\ arg.d = << >>) => ret = Year2025 \o <<"sp", "Sep">>
            /\ (OnlyHistory(arg) /\ arg.history
                    = <<Dated("pubmed", Year2025, <<"1", "0">>, <<"2">>)>>)
                  => ret = Year2025 \o <<"sp", "Oct", "sp", "0", "2">>
            /\ (OnlyIssue(arg) /\ OnlyHistory(arg)) => ret = << >>

\* any write of the state file comes before the recipient-list check and the
\* mail send attempt of the run
WriteBeforeDelivery ==
    \A i, j \in DOMAIN calls :
        (calls[i].op = "write" /\ calls[j].op \in {"recipients", "smtp"}) => i < j

\* the run summarised every record it fetched, at least one, and has ended
SummarisedAll ==
    /\ pc = "end"
    /\ records # << >>
    /\ Len(items) = Len(records)

=============================================================================
